---- MODULE Spec2Model ----
(***************************************************************************)
(* PMSAv7 memory protection of pw_kernel (arch/arm_cortex_m):              *)
(*   - the region translator MpuRegion::from_memory_region and its helper  *)
(*     calculate_aligned_region / calculate_size_field,                    *)
(*   - MemoryConfig::const_new and MemoryConfig::write (the MPU programmer)*)
(*     acting on the MPU register bank,                                    *)
(* the signals of a kernel object (kernel/tests/object_signals.rs), and    *)
(* the server and the client of the IPC notification test                  *)
(* (tests/ipc_notification/user).                                          *)
(*                                                                         *)
(* usize and u32 are 32 bits wide on the Cortex-M target.  TLC's integers  *)
(* end at 2^31 - 1, so a 32-bit value v is held as two 16-bit limbs        *)
(* <<hi, lo>> with v = hi * 2^16 + lo.  The result of an addition, a       *)
(* subtraction or a multiplication is first computed "wide" (hi may leave  *)
(* 0 .. 2^16 - 1); that is the arithmetic overflow of the Rust code, which *)
(* panics in a build with overflow checks and wraps in a build without.    *)
(***************************************************************************)
EXTENDS Integers, Sequences, FiniteSets, TLC

VARIABLES
    overflow_checks, \* build profile: TRUE = arithmetic overflow panics, FALSE = wraps
    region,          \* the MemoryRegion handed to from_memory_region
    tpc,             \* position of the translation: "call" | "returned"
    aligned,         \* outcome of calculate_aligned_region (status + AlignedRegion)
    mpu_region,      \* the MpuRegion (rbar, rasr) built by from_memory_region
    static_regions,  \* per thread: the 'static [MemoryRegion] list of its MemoryConfig
    cfg_status,      \* per thread: outcome of MemoryConfig::const_new ("none" before)
    memory_config,   \* per thread: its MemoryConfig (mpu_regions, generic_regions)
    mpu,             \* the MPU register bank: ctrl, rnr and the region registers
    pc,              \* per thread: position inside MemoryConfig::write
    idx,             \* per thread: loop index of MemoryConfig::write
    access,          \* the last range_has_access call: its arguments and its answer
    last_install,    \* the write() that returned last: whose MemoryConfig it wrote,
                     \* the MPU registers it left, whether the write() before it
                     \* wrote an equal MemoryConfig
    active_signals,  \* the active signals of one kernel object (ObjectBase)
    last_op,         \* the last call on that object: signal or raise, its
                     \* argument, and the active signals it found
    server,          \* the IPC test server: position in server_loop, its request
                     \* buffer, the response it computed, responses per request
    client,          \* the IPC test client: position, whether it raised USER on
                     \* the server since its last transaction
    channel,         \* the channel: state, request and response in flight
    handler_signals, \* active signals of the server's end of the channel
    initiator_signals \* active signals of the client's end of the channel

tvars == <<overflow_checks, region, tpc, aligned, mpu_region>>
ivars == <<static_regions, cfg_status, memory_config, mpu, pc, idx>>
svars == <<active_signals, last_op>>
cvars == <<server, client, channel, handler_signals, initiator_signals>>
xvars == <<access, last_install, svars, cvars>>
vars == <<overflow_checks, region, tpc, aligned, mpu_region,
          static_regions, cfg_status, memory_config, mpu, pc, idx, access,
          last_install, active_signals, last_op,
          server, client, channel, handler_signals, initiator_signals>>

----------------------------------------------------------------------------
(* 32-bit words as limbs *)

Limb == 2^16

U(hi, lo) == <<hi, lo>>
Hi(x) == x[1]
Lo(x) == x[2]

ULt(a, b) == Hi(a) < Hi(b) \/ (Hi(a) = Hi(b) /\ Lo(a) < Lo(b))
ULe(a, b) == ~ULt(b, a)

\* a wide result that does not fit 32 bits
Overflowed(x) == Hi(x) >= Limb \/ Hi(x) < 0
\* reduction modulo 2^32
Wrap(x) == <<(Hi(x) + Limb) % Limb, Lo(x)>>

AddWide(a, b) ==
    LET s == Lo(a) + Lo(b) IN <<Hi(a) + Hi(b) + (s \div Limb), s % Limb>>

SubWide(a, b) ==
    LET d == Lo(a) - Lo(b)
    IN  IF d >= 0 THEN <<Hi(a) - Hi(b), d>> ELSE <<Hi(a) - Hi(b) - 1, d + Limb>>

\* multiplication by a small factor (n <= 8 in the code)
MulWide(a, n) ==
    LET p == Lo(a) * n IN <<Hi(a) * n + (p \div Limb), p % Limb>>

\* size >>= 1
Shr1(x) == <<Hi(x) \div 2, (Lo(x) \div 2) + (Hi(x) % 2) * (Limb \div 2)>>

\* region_size / 8
Div8(x) == <<Hi(x) \div 8, (Lo(x) + (Hi(x) % 8) * Limb) \div 8>>

RECURSIVE BitAnd(_, _, _)
BitAnd(a, b, n) ==
    IF n = 0 THEN 0
    ELSE (a % 2) * (b % 2) + 2 * BitAnd(a \div 2, b \div 2, n - 1)

RECURSIVE BitOr(_, _, _)
BitOr(a, b, n) ==
    IF n = 0 THEN 0
    ELSE (IF a % 2 = 1 \/ b % 2 = 1 THEN 1 ELSE 0)
         + 2 * BitOr(a \div 2, b \div 2, n - 1)

UAnd(x, y) == <<BitAnd(Hi(x), Hi(y), 16), BitAnd(Lo(x), Lo(y), 16)>>
UOr(x, y) == <<BitOr(Hi(x), Hi(y), 16), BitOr(Lo(x), Lo(y), 16)>>
UNot(x) == <<Limb - 1 - Hi(x), Limb - 1 - Lo(x)>>

\* 2^k as a word, 0 <= k <= 31
Pow2U(k) == IF k < 16 THEN <<0, 2^k>> ELSE <<2^(k - 16), 0>>

----------------------------------------------------------------------------
(* MemoryRegionType and the PMSAv7 access permission encoding *)

MemoryRegionType ==
    {"ReadOnlyData", "ReadWriteData", "ReadOnlyExecutable",
     "ReadWriteExecutable", "Device"}

RasrAp_RwAny == 3
RasrAp_RoAny == 6

----------------------------------------------------------------------------
(* MpuRegion::calculate_size_field *)

RECURSIVE HighestBit(_, _)
HighestBit(size, bits) ==
    IF ULt(U(0, 1), size) THEN HighestBit(Shr1(size), bits + 1) ELSE bits

calculate_size_field_log2(size_bytes) ==
    LET bits == HighestBit(size_bytes, 0)
    IN  IF bits < 5 THEN 4 ELSE bits

calculate_size_field(size_bytes) ==
    LET bits == HighestBit(size_bytes, 0)
    IN  IF bits < 5 THEN 4 ELSE bits - 1

----------------------------------------------------------------------------
(* MpuRegion::calculate_aligned_region                                      *)
(* status: "Ok"           an AlignedRegion is returned                      *)
(*         "SizeExceeds"  panic "size exceeds PMSAv7 limits"                *)
(*         "RoundExceeds" panic of the rounding loop                        *)
(*         "AlignExceeds" panic of the alignment loop                       *)
(*         "Overflow"     arithmetic overflow panic (overflow checks on)    *)
(*         "Hang"         the alignment loop never ends (overflow wraps)    *)

MAX_REGION_SIZE == U(32768, 0)

Rejected(s) ==
    [status |-> s, base |-> U(0, 0), region_size |-> U(0, 0),
     size_field |-> 0, srd_mask |-> 0]

\* if requested_size > MAX_REGION_SIZE { panic!(...) }
ExceedsMax_never(requested_size) == FALSE

ExceedsMax(requested_size) == ULt(MAX_REGION_SIZE, requested_size)

\* start & !(region_size - 1)
AlignDown_none(start, region_size) == start

AlignDown(start, region_size) ==
    UAnd(start, UNot(Wrap(SubWide(region_size, U(0, 1)))))

\* the rounding loop failing already when region_size reaches MAX_REGION_SIZE
RECURSIVE RoundLoop_limit_inclusive(_, _, _)
RoundLoop_limit_inclusive(region_size, requested_size, checked) ==
    IF ~ULt(region_size, requested_size) THEN <<"Ok", region_size>>
    ELSE LET d == MulWide(region_size, 2)
         IN  IF Overflowed(d) /\ checked THEN <<"Overflow", region_size>>
             ELSE IF ULe(MAX_REGION_SIZE, Wrap(d)) THEN <<"RoundExceeds", Wrap(d)>>
             ELSE IF Wrap(d) = region_size THEN <<"Hang", region_size>>
             ELSE RoundLoop_limit_inclusive(Wrap(d), requested_size, checked)

\* the rounding loop doubling also when region_size equals requested_size
RECURSIVE RoundLoop_strict(_, _, _)
RoundLoop_strict(region_size, requested_size, checked) ==
    IF ULt(requested_size, region_size) THEN <<"Ok", region_size>>
    ELSE LET d == MulWide(region_size, 2)
         IN  IF Overflowed(d) /\ checked THEN <<"Overflow", region_size>>
             ELSE IF ULt(MAX_REGION_SIZE, Wrap(d)) THEN <<"RoundExceeds", Wrap(d)>>
             ELSE IF Wrap(d) = region_size THEN <<"Hang", region_size>>
             ELSE RoundLoop_strict(Wrap(d), requested_size, checked)

\* while region_size < requested_size { region_size *= 2; if ... panic }
RECURSIVE RoundLoop(_, _, _)
RoundLoop(region_size, requested_size, checked) ==
    IF ~ULt(region_size, requested_size) THEN <<"Ok", region_size>>
    ELSE LET d == MulWide(region_size, 2)
         IN  IF Overflowed(d) /\ checked THEN <<"Overflow", region_size>>
             ELSE IF ULt(MAX_REGION_SIZE, Wrap(d)) THEN <<"RoundExceeds", Wrap(d)>>
             ELSE IF Wrap(d) = region_size THEN <<"Hang", region_size>>
             ELSE RoundLoop(Wrap(d), requested_size, checked)

\* the alignment loop doubling also when the region ends exactly at end
RECURSIVE AlignLoop_inclusive(_, _, _, _, _)
AlignLoop_inclusive(region_size, aligned_base, start, end, checked) ==
    LET sum == AddWide(aligned_base, region_size)
    IN  IF Overflowed(sum) /\ checked THEN <<"Overflow", region_size, aligned_base>>
        ELSE IF ULt(end, Wrap(sum)) THEN <<"Ok", region_size, aligned_base>>
        ELSE LET d == MulWide(region_size, 2)
                 r == Wrap(d)
                 m == SubWide(r, U(0, 1))
                 b == AlignDown(start, r)
             IN  IF (Overflowed(d) \/ Overflowed(m)) /\ checked
                 THEN <<"Overflow", region_size, aligned_base>>
                 ELSE IF ULt(MAX_REGION_SIZE, r) THEN <<"AlignExceeds", r, b>>
                 ELSE IF r = region_size /\ b = aligned_base
                 THEN <<"Hang", r, b>>
                 ELSE AlignLoop_inclusive(r, b, start, end, checked)

\* while aligned_base + region_size < end { region_size *= 2; aligned_base = ...;
\*                                          if ... panic }
RECURSIVE AlignLoop(_, _, _, _, _)
AlignLoop(region_size, aligned_base, start, end, checked) ==
    LET sum == AddWide(aligned_base, region_size)
    IN  IF Overflowed(sum) /\ checked THEN <<"Overflow", region_size, aligned_base>>
        ELSE IF ~ULt(Wrap(sum), end) THEN <<"Ok", region_size, aligned_base>>
        ELSE LET d == MulWide(region_size, 2)
                 r == Wrap(d)
                 m == SubWide(r, U(0, 1))
                 b == AlignDown(start, r)
             IN  IF (Overflowed(d) \/ Overflowed(m)) /\ checked
                 THEN <<"Overflow", region_size, aligned_base>>
                 ELSE IF ULt(MAX_REGION_SIZE, r) THEN <<"AlignExceeds", r, b>>
                 ELSE IF r = region_size /\ b = aligned_base
                 THEN <<"Hang", r, b>>
                 ELSE AlignLoop(r, b, start, end, checked)

\* the sub-region of index i overlaps [start, end); "Overflow" when computing
\* its bounds overflows in a checked build
SubregionOverlaps_touching(aligned_base, subregion_size, i, start, end) ==
    LET subregion_start == Wrap(AddWide(aligned_base, MulWide(subregion_size, i)))
        subregion_end == Wrap(AddWide(subregion_start, subregion_size))
    IN  ULt(subregion_start, end) /\ ULe(start, subregion_end)

\* a sub-region counted as overlapping only when it lies inside [start, end)
SubregionOverlaps_inside(aligned_base, subregion_size, i, start, end) ==
    LET subregion_start == Wrap(AddWide(aligned_base, MulWide(subregion_size, i)))
        subregion_end == Wrap(AddWide(subregion_start, subregion_size))
    IN  ULe(start, subregion_start) /\ ULe(subregion_end, end)

SubregionOverlaps(aligned_base, subregion_size, i, start, end) ==
    LET subregion_start == Wrap(AddWide(aligned_base, MulWide(subregion_size, i)))
        subregion_end == Wrap(AddWide(subregion_start, subregion_size))
    IN  ULt(subregion_start, end) /\ ULt(start, subregion_end)

SubregionOverflows(aligned_base, subregion_size, i) ==
    LET off == MulWide(subregion_size, i)
        s == AddWide(aligned_base, off)
    IN  \/ Overflowed(off)
        \/ Overflowed(s)
        \/ Overflowed(AddWide(Wrap(s), subregion_size))

\* the loop that disables no sub-region
SrdLoop_none(i, srd_mask, aligned_base, subregion_size, start, end) == 0

\* while i < 8 { ...; if !overlaps { srd_mask |= 1 << i }; i += 1 }
RECURSIVE SrdLoop(_, _, _, _, _, _)
SrdLoop(i, srd_mask, aligned_base, subregion_size, start, end) ==
    IF i >= 8 THEN srd_mask
    ELSE SrdLoop(i + 1,
                 IF SubregionOverlaps(aligned_base, subregion_size, i, start, end)
                 THEN srd_mask
                 ELSE srd_mask + 2^i,
                 aligned_base, subregion_size, start, end)

calculate_aligned_region(start, end, checked) ==
    LET req_wide == SubWide(end, start)
        requested_size == Wrap(req_wide)
    IN  IF Overflowed(req_wide) /\ checked THEN Rejected("Overflow")
        ELSE IF ExceedsMax(requested_size) THEN Rejected("SizeExceeds")
        ELSE
        LET rounded == RoundLoop(U(0, 32), requested_size, checked)
        IN  IF rounded[1] # "Ok" THEN Rejected(rounded[1])
            ELSE
            LET fit == AlignLoop(rounded[2], AlignDown(start, rounded[2]),
                                 start, end, checked)
                region_size == fit[2]
                aligned_base == fit[3]
                subregion_size == Div8(region_size)
            IN  IF fit[1] # "Ok" THEN Rejected(fit[1])
                ELSE IF checked /\ \E i \in 0..7 :
                            SubregionOverflows(aligned_base, subregion_size, i)
                THEN Rejected("Overflow")
                ELSE [status |-> "Ok",
                      base |-> aligned_base,
                      region_size |-> region_size,
                      size_field |-> calculate_size_field(region_size),
                      srd_mask |-> SrdLoop(0, 0, aligned_base, subregion_size,
                                           start, end)]

----------------------------------------------------------------------------
(* Register value types of regs/mpu/mpu_v7.rs.  RbarVal holds a full 32-bit  *)
(* address and is a limb pair; every field of RasrVal lies below bit 29, so  *)
(* RasrVal is held as one integer.                                           *)

\* regs::ops::set_u32(value, start, end, val): bits start..end of value := val
set_u32(value, start, end, val) ==
    ((value \div 2^(end + 1)) * 2^(end + 1))
    + ((val % 2^(end - start + 1)) * 2^start)
    + (value % 2^start)

\* regs::ops::get_u32(value, start, end)
get_u32(value, start, end) == (value \div 2^start) % 2^(end - start + 1)

B2N(b) == IF b THEN 1 ELSE 0

RbarVal_const_default == U(0, 0)
RasrVal_const_default == 0

RBAR_ADDR_MASK == U(65535, 65504)

\* the VALID bit set whatever the argument
Rbar_with_valid_always(self, val) == <<Hi(self), set_u32(Lo(self), 4, 4, 1)>>

Rbar_with_valid(self, val) == <<Hi(self), set_u32(Lo(self), 4, 4, B2N(val))>>
Rbar_with_addr(self, val) ==
    UOr(UAnd(self, UNot(RBAR_ADDR_MASK)), UAnd(val, RBAR_ADDR_MASK))
Rbar_valid(self) == get_u32(Lo(self), 4, 4) = 1
Rbar_region(self) == get_u32(Lo(self), 0, 3)
Rbar_addr(self) == UAnd(self, RBAR_ADDR_MASK)

Rasr_with_enable(self, val) == set_u32(self, 0, 0, B2N(val))
\* the SIZE field written one bit too low
Rasr_with_size_at_bit0(self, val) == set_u32(self, 0, 4, val)

Rasr_with_size(self, val) == set_u32(self, 1, 5, val)
Rasr_with_srd(self, val) == set_u32(self, 8, 15, val)
Rasr_with_b(self, val) == set_u32(self, 16, 16, B2N(val))
Rasr_with_c(self, val) == set_u32(self, 17, 17, B2N(val))
Rasr_with_s(self, val) == set_u32(self, 18, 18, B2N(val))
Rasr_with_tex(self, val) == set_u32(self, 19, 21, val)
Rasr_with_ap(self, val) == set_u32(self, 24, 26, val)
Rasr_with_xn(self, val) == set_u32(self, 28, 28, B2N(val))

Rasr_enable(self) == get_u32(self, 0, 0) = 1
Rasr_size(self) == get_u32(self, 1, 5)
Rasr_srd(self) == get_u32(self, 8, 15)
Rasr_b(self) == get_u32(self, 16, 16) = 1
Rasr_c(self) == get_u32(self, 17, 17) = 1
Rasr_s(self) == get_u32(self, 18, 18) = 1
Rasr_tex(self) == get_u32(self, 19, 21)
Rasr_ap(self) == get_u32(self, 24, 26)
Rasr_xn(self) == get_u32(self, 28, 28) = 1

----------------------------------------------------------------------------
(* MpuRegion *)

\* the unused slot with RASR.enable set
const_default_enabled == [rbar |-> RbarVal_const_default, rasr |-> 1]

const_default == [rbar |-> RbarVal_const_default, rasr |-> RasrVal_const_default]

\* the match on region.ty of from_memory_region
Attributes_all_shareable(ty) ==
    [xn |-> ty \in {"ReadOnlyData", "ReadWriteData", "Device"},
     tex |-> IF ty = "Device" THEN 0 ELSE 1,
     s |-> TRUE,
     c |-> ty # "Device",
     b |-> TRUE,
     ap |-> IF ty \in {"ReadWriteData", "ReadWriteExecutable"}
            THEN RasrAp_RwAny ELSE RasrAp_RoAny]

Attributes(ty) ==
    CASE ty = "ReadOnlyData" ->
           [xn |-> TRUE, tex |-> 1, s |-> TRUE, c |-> TRUE, b |-> TRUE,
            ap |-> RasrAp_RoAny]
      [] ty = "ReadWriteData" ->
           [xn |-> TRUE, tex |-> 1, s |-> FALSE, c |-> TRUE, b |-> TRUE,
            ap |-> RasrAp_RwAny]
      [] ty = "ReadOnlyExecutable" ->
           [xn |-> FALSE, tex |-> 1, s |-> TRUE, c |-> TRUE, b |-> TRUE,
            ap |-> RasrAp_RoAny]
      [] ty = "ReadWriteExecutable" ->
           [xn |-> FALSE, tex |-> 1, s |-> TRUE, c |-> TRUE, b |-> TRUE,
            ap |-> RasrAp_RwAny]
      [] ty = "Device" ->
           [xn |-> TRUE, tex |-> 0, s |-> TRUE, c |-> FALSE, b |-> TRUE,
            ap |-> RasrAp_RoAny]

\* the struct expression of from_memory_region, given the AlignedRegion
BuildMpuRegion(aligned_region, ty) ==
    LET a == Attributes(ty)
    IN  [rbar |-> Rbar_with_addr(Rbar_with_valid(RbarVal_const_default, FALSE),
                                 aligned_region.base),
         rasr |-> Rasr_with_xn(
                  Rasr_with_ap(
                  Rasr_with_b(
                  Rasr_with_c(
                  Rasr_with_s(
                  Rasr_with_tex(
                  Rasr_with_srd(
                  Rasr_with_size(
                  Rasr_with_enable(RasrVal_const_default, TRUE),
                  aligned_region.size_field),
                  aligned_region.srd_mask),
                  a.tex), a.s), a.c), a.b), a.ap), a.xn)]

\* MpuRegion::from_memory_region: status of the call and the MpuRegion returned
from_memory_region(r, checked) ==
    LET aligned_region == calculate_aligned_region(r.start, r.end, checked)
    IN  IF aligned_region.status = "Ok"
        THEN [status |-> "Ok", aligned |-> aligned_region,
              region |-> BuildMpuRegion(aligned_region, r.ty)]
        ELSE [status |-> aligned_region.status, aligned |-> aligned_region,
              region |-> const_default]

----------------------------------------------------------------------------
(* The requests the translator is applied to *)

DeltaExpMax == 5

Deltas == {0} \cup {2^k : k \in 0..DeltaExpMax}

\* addresses next to the boundaries that matter: 0 (and, below it, the top of
\* the address space), 4 KiB, the SRAM base 0x2000_0000, and 2^31
Anchors == {U(0, 0), U(0, 4096), U(8192, 0), U(32768, 0)}

\* addresses of the documented examples: 0x1100, 0x2000_0100, 0x2000_0200,
\* 0x2000_4000, 0x0002_0000
ExampleAddrs == {U(0, 4352), U(8192, 256), U(8192, 512), U(8192, 16384), U(2, 0)}

Addrs ==
    {Wrap(AddWide(a, U(0, d))) : a \in Anchors, d \in Deltas}
    \cup {Wrap(SubWide(a, U(0, d))) : a \in Anchors, d \in Deltas}
    \cup ExampleAddrs

MemoryRegion_new(ty, start, end) == [ty |-> ty, start |-> start, end |-> end]

Requests ==
    {MemoryRegion_new(ty, s, e) : ty \in MemoryRegionType,
                                  s \in Addrs, e \in Addrs}

----------------------------------------------------------------------------
(* MemoryConfig *)

NUM_MPU_REGIONS == 8

Slots == 0..(NUM_MPU_REGIONS - 1)

\* while i < regions.len() { mpu_regions[i] = from_memory_region(&regions[i]); i += 1 }
\* translated[i + 1] is the outcome of from_memory_region(&regions[i]);
\* mpu_regions is the array indexed from 0
\* the loop stopping at the capacity, dropping the entries beyond it
RECURSIVE ConstNewLoop_truncating(_, _, _)
ConstNewLoop_truncating(i, mpu_regions, translated) ==
    IF i >= Len(translated) \/ i \notin Slots
    THEN [status |-> "Ok", mpu_regions |-> mpu_regions]
    ELSE IF translated[i + 1].status # "Ok"
    THEN [status |-> translated[i + 1].status, mpu_regions |-> mpu_regions]
    ELSE ConstNewLoop_truncating(i + 1,
             [mpu_regions EXCEPT ![i] = translated[i + 1].region],
             translated)

RECURSIVE ConstNewLoop(_, _, _)
ConstNewLoop(i, mpu_regions, translated) ==
    IF i >= Len(translated) THEN [status |-> "Ok", mpu_regions |-> mpu_regions]
    ELSE IF translated[i + 1].status # "Ok"
    THEN [status |-> translated[i + 1].status, mpu_regions |-> mpu_regions]
    ELSE IF i \notin Slots
    THEN [status |-> "IndexOutOfBounds", mpu_regions |-> mpu_regions]
    ELSE ConstNewLoop(i + 1,
                      [mpu_regions EXCEPT ![i] = translated[i + 1].region],
                      translated)

\* the loop with the slot index off by one
RECURSIVE ConstNewLoop_shifted(_, _, _)
ConstNewLoop_shifted(i, mpu_regions, translated) ==
    IF i >= Len(translated) THEN [status |-> "Ok", mpu_regions |-> mpu_regions]
    ELSE IF translated[i + 1].status # "Ok"
    THEN [status |-> translated[i + 1].status, mpu_regions |-> mpu_regions]
    ELSE IF i \notin Slots
    THEN [status |-> "IndexOutOfBounds", mpu_regions |-> mpu_regions]
    ELSE ConstNewLoop_shifted(i + 1,
             [mpu_regions EXCEPT
                ![(i + 1) % NUM_MPU_REGIONS] = translated[i + 1].region],
             translated)

const_new_shifted(regions, checked) ==
    LET translated == [i \in 1..Len(regions) |->
                          from_memory_region(regions[i], checked)]
        built == ConstNewLoop_shifted(0, [i \in Slots |-> const_default],
                                      translated)
    IN  [status |-> built.status,
         config |-> [mpu_regions |-> built.mpu_regions,
                     generic_regions |-> regions]]

\* MemoryConfig::const_new: status of the evaluation and the MemoryConfig
const_new(regions, checked) ==
    LET translated == [i \in 1..Len(regions) |->
                          from_memory_region(regions[i], checked)]
        built == ConstNewLoop(0, [i \in Slots |-> const_default], translated)
    IN  [status |-> built.status,
         config |-> [mpu_regions |-> built.mpu_regions,
                     generic_regions |-> regions]]

\* KERNEL_THREAD_MEMORY_CONFIG's region list
KernelRegions ==
    <<MemoryRegion_new("ReadWriteExecutable", U(0, 0), U(32768, 0))>>

----------------------------------------------------------------------------
(* Software access checks: MemoryConfig::range_has_access and the           *)
(* MemoryRegion query it delegates to.  The permission lattice orders       *)
(* ReadOnly < ReadWrite and NonExecutable < Executable; Device compares     *)
(* only with itself.                                                        *)

Writable(ty) == ty \in {"ReadWriteData", "ReadWriteExecutable"}
Executable(ty) == ty \in {"ReadOnlyExecutable", "ReadWriteExecutable"}

\* a region of kind ty grants what a request of kind request needs
type_has_access(ty, request) ==
    IF ty = "Device" \/ request = "Device" THEN ty = request
    ELSE /\ (Writable(request) => Writable(ty))
         /\ (Executable(request) => Executable(ty))

MemoryRegion_has_access(self, validation_region) ==
    /\ type_has_access(self.ty, validation_region.ty)
    /\ ULe(self.start, validation_region.start)
    /\ ULe(validation_region.end, self.end)

regions_have_access(regions, validation_region) ==
    \E i \in 1..Len(regions) :
        MemoryRegion_has_access(regions[i], validation_region)

\* the answer read off the hardware descriptors instead: some enabled
\* descriptor whose region [base, base + rs) encloses the range and whose
\* AP and XN bits allow the access
range_has_access_descriptors(self, access_type, start_addr, end_addr) ==
    \E i \in Slots :
        LET d == self.mpu_regions[i]
            base == Rbar_addr(d.rbar)
            rs == Pow2U(Rasr_size(d.rasr) + 1)
        IN  /\ Rasr_enable(d.rasr)
            /\ ULe(base, start_addr)
            /\ ULe(end_addr, AddWide(base, rs))
            /\ (Writable(access_type) => Rasr_ap(d.rasr) = RasrAp_RwAny)
            /\ (Executable(access_type) => ~Rasr_xn(d.rasr))

\* the validation region built with its bounds exchanged
range_has_access_swapped(self, access_type, start_addr, end_addr) ==
    LET validation_region == MemoryRegion_new(access_type, end_addr, start_addr)
    IN  regions_have_access(self.generic_regions, validation_region)

\* the validation region built without the requested access type
range_has_access_untyped(self, access_type, start_addr, end_addr) ==
    LET validation_region == MemoryRegion_new("ReadOnlyData", start_addr, end_addr)
    IN  regions_have_access(self.generic_regions, validation_region)

\* MemoryConfig::range_has_access
range_has_access(self, access_type, start_addr, end_addr) ==
    LET validation_region == MemoryRegion_new(access_type, start_addr, end_addr)
    IN  regions_have_access(self.generic_regions, validation_region)

----------------------------------------------------------------------------
(* The MPU register bank.  CTRL holds bits enable[0], hfnmiena[1],          *)
(* privdefena[2]; RNR selects the region that RBAR and RASR address.  An    *)
(* RBAR write with VALID set selects the region of its REGION field first.  *)

Ctrl_with_enable(self, val) == set_u32(self, 0, 0, B2N(val))
Ctrl_with_hfnmiena(self, val) == set_u32(self, 1, 1, B2N(val))
Ctrl_with_privdefena(self, val) == set_u32(self, 2, 2, B2N(val))
Ctrl_enable(self) == get_u32(self, 0, 0) = 1
Ctrl_hfnmiena(self) == get_u32(self, 1, 1) = 1
Ctrl_privdefena(self) == get_u32(self, 2, 2) = 1

\* RnrVal::default().with_region(region_number as u8)
Rnr_with_region(self, val) == set_u32(self, 0, 7, val)

HwWriteCtrl(m, val) == [m EXCEPT !.ctrl = val]

HwWriteRnr(m, val) == [m EXCEPT !.rnr = get_u32(val, 0, 7)]

HwWriteRbar(m, val) ==
    LET n == IF Rbar_valid(val) THEN Rbar_region(val) ELSE m.rnr
    IN  IF n \in Slots
        THEN [m EXCEPT !.rnr = n, !.regions[n].rbar = Rbar_addr(val)]
        ELSE m

HwWriteRasr(m, val) ==
    IF m.rnr \in Slots THEN [m EXCEPT !.regions[m.rnr].rasr = val] ELSE m

MpuReset(ctrl) ==
    [ctrl |-> ctrl, rnr |-> 0, regions |-> [i \in Slots |-> const_default]]

----------------------------------------------------------------------------
(* MemoryConfig::write and MpuRegion::write, one register access per step *)

\* mpu.ctrl.read().with_enable(false).with_hfnmiena(false).with_privdefena(true)
DisableValue_stays_enabled(ctrl) ==
    Ctrl_with_privdefena(Ctrl_with_hfnmiena(ctrl, FALSE), TRUE)

\* privdefena written with the complement of the bit read
DisableValue_toggles_privdefena(ctrl) ==
    Ctrl_with_privdefena(Ctrl_with_hfnmiena(Ctrl_with_enable(ctrl, FALSE), FALSE),
                         ~Ctrl_privdefena(ctrl))

DisableValue(ctrl) ==
    Ctrl_with_privdefena(Ctrl_with_hfnmiena(Ctrl_with_enable(ctrl, FALSE), FALSE),
                         TRUE)

\* mpu.ctrl.read().with_enable(true)
EnableValue(ctrl) == Ctrl_with_enable(ctrl, TRUE)

\* the value MpuRegion::write stores into RNR for slot region_number
RnrValue_zero(region_number) == Rnr_with_region(0, 0)

RnrValue(region_number) == Rnr_with_region(0, region_number % 256)

Threads == {1, 2}

\* The caller of the unsafe fn write: the scheduler, on one CPU and not
\* preemptible while it programs the MPU.  A write begins only when no other
\* write is in progress.
CallerMayBegin_preemptible(t) == TRUE

CallerMayBegin(t) == \A u \in Threads : pc[u] = "idle"

\* the MemoryRegion lists MemoryConfigs are built from
ListLenMax == 9

BasePool ==
    <<MemoryRegion_new("ReadOnlyExecutable", U(0, 0), U(2, 0)),
      MemoryRegion_new("ReadWriteData", U(8192, 0), U(8192, 16384)),
      MemoryRegion_new("ReadWriteData", U(8192, 256), U(8192, 512)),
      MemoryRegion_new("Device", U(16384, 0), U(16384, 4096)),
      MemoryRegion_new("ReadOnlyData", U(0, 4096), U(0, 4352))>>

PoolRegion(i) == BasePool[((i - 1) % Len(BasePool)) + 1]

RegionLists ==
    {[i \in 1..n |-> PoolRegion(i)] : n \in 0..ListLenMax} \cup {KernelRegions}

NoConfig ==
    [mpu_regions |-> [i \in Slots |-> const_default], generic_regions |-> <<>>]

\* const evaluation of one thread's MemoryConfig
ConstNew(t) ==
    /\ cfg_status[t] = "none"
    /\ LET res == const_new(static_regions[t], overflow_checks)
       IN  /\ cfg_status' = [cfg_status EXCEPT ![t] = res.status]
           /\ memory_config' =
                [memory_config EXCEPT
                   ![t] = IF res.status = "Ok" THEN res.config ELSE NoConfig]
    /\ UNCHANGED <<static_regions, mpu, pc, idx>>
    /\ UNCHANGED tvars
    /\ UNCHANGED xvars

\* entry of write(): the CTRL read-modify-write that disables the MPU
InstallBegin(t) ==
    /\ \A u \in Threads : cfg_status[u] = "Ok"
    /\ pc[t] = "idle"
    /\ CallerMayBegin(t)
    /\ mpu' = HwWriteCtrl(mpu, DisableValue(mpu.ctrl))
    /\ pc' = [pc EXCEPT ![t] = IF NUM_MPU_REGIONS > 0 THEN "rnr" ELSE "enable"]
    /\ idx' = [idx EXCEPT ![t] = 0]
    /\ UNCHANGED <<static_regions, cfg_status, memory_config>>
    /\ UNCHANGED tvars
    /\ UNCHANGED xvars

\* MpuRegion::write: mpu.rnr.write(...)
WriteRnr(t) ==
    /\ pc[t] = "rnr"
    /\ mpu' = HwWriteRnr(mpu, RnrValue(idx[t]))
    /\ pc' = [pc EXCEPT ![t] = "rbar"]
    /\ UNCHANGED <<static_regions, cfg_status, memory_config, idx>>
    /\ UNCHANGED tvars
    /\ UNCHANGED xvars

\* MpuRegion::write: mpu.rbar.write(self.rbar)
WriteRbar(t) ==
    /\ pc[t] = "rbar"
    /\ mpu' = HwWriteRbar(mpu, memory_config[t].mpu_regions[idx[t]].rbar)
    /\ pc' = [pc EXCEPT ![t] = "rasr"]
    /\ UNCHANGED <<static_regions, cfg_status, memory_config, idx>>
    /\ UNCHANGED tvars
    /\ UNCHANGED xvars

\* MpuRegion::write: mpu.rasr.write(self.rasr); then the next slot
WriteRasr(t) ==
    /\ pc[t] = "rasr"
    /\ mpu' = HwWriteRasr(mpu, memory_config[t].mpu_regions[idx[t]].rasr)
    /\ idx' = [idx EXCEPT ![t] = idx[t] + 1]
    /\ pc' = [pc EXCEPT ![t] = IF idx[t] + 1 < NUM_MPU_REGIONS
                               THEN "rnr" ELSE "enable"]
    /\ UNCHANGED <<static_regions, cfg_status, memory_config>>
    /\ UNCHANGED tvars
    /\ UNCHANGED xvars

\* the CTRL read-modify-write that enables the MPU; write() returns
InstallEnable(t) ==
    /\ pc[t] = "enable"
    /\ mpu' = HwWriteCtrl(mpu, EnableValue(mpu.ctrl))
    /\ pc' = [pc EXCEPT ![t] = "done"]
    /\ last_install' =
         [config |-> t, mpu |-> mpu', previous |-> last_install.config,
          repeated |-> /\ last_install.config \in Threads
                       /\ memory_config[last_install.config] = memory_config[t]]
    /\ UNCHANGED <<static_regions, cfg_status, memory_config, idx>>
    /\ UNCHANGED tvars
    /\ UNCHANGED <<access, svars, cvars>>

\* the caller goes on after write() returned
InstallReturn(t) ==
    /\ pc[t] = "done"
    /\ pc' = [pc EXCEPT ![t] = "idle"]
    /\ UNCHANGED <<static_regions, cfg_status, memory_config, mpu, idx>>
    /\ UNCHANGED tvars
    /\ UNCHANGED xvars

----------------------------------------------------------------------------
(* range_has_access called on a thread's MemoryConfig *)

\* the lists of scenario 4 (one ReadWriteData region) and of its ReadOnlyData
\* counterpart, next to the lists above
Scenario4Regions ==
    <<MemoryRegion_new("ReadWriteData", U(8192, 256), U(8192, 512))>>

Scenario4ReadOnlyRegions ==
    <<MemoryRegion_new("ReadOnlyData", U(8192, 256), U(8192, 512))>>

AccessLists == RegionLists \cup {Scenario4Regions, Scenario4ReadOnlyRegions}

\* addresses the syscall layer asks about: the bounds of the regions above
\* and addresses below, inside and beyond them
ProbeAddrs ==
    {U(0, 0), U(0, 4096), U(0, 4224), U(0, 4352), U(2, 0),
     U(8192, 0), U(8192, 128), U(8192, 144), U(8192, 256), U(8192, 384),
     U(8192, 400), U(8192, 512), U(8192, 16384), U(16384, 0), U(16384, 4096), U(32768, 0)}

NoAccess ==
    [called |-> FALSE, config |-> 0, access_type |-> "ReadOnlyData",
     start_addr |-> U(0, 0), end_addr |-> U(0, 0), result |-> FALSE]

\* one call at run time, that is after every MemoryConfig of the image was
\* evaluated; the call reads the configuration and changes nothing, so a run
\* follows a single call
RangeHasAccess(t) ==
    /\ \A u \in Threads : cfg_status[u] = "Ok"
    /\ ~access.called
    /\ \E access_type \in MemoryRegionType, start_addr \in ProbeAddrs,
          end_addr \in ProbeAddrs :
          access' = [called |-> TRUE, config |-> t,
                     access_type |-> access_type,
                     start_addr |-> start_addr, end_addr |-> end_addr,
                     result |-> range_has_access(memory_config[t], access_type,
                                                 start_addr, end_addr)]
    /\ UNCHANGED tvars
    /\ UNCHANGED ivars
    /\ UNCHANGED <<last_install, svars, cvars>>

----------------------------------------------------------------------------
(* Signals of a kernel object: ObjectBase::new, ObjectBase::signal and      *)
(* ObjectBase::raise, called as kernel/tests/object_signals.rs calls them.  *)
(* A Signals value is the set of the flags it holds.                        *)

SignalFlags == {"READABLE", "WRITEABLE", "USER"}

Signals == SUBSET SignalFlags

Signals_empty == {}

\* ObjectBase::new(): no signal is active
ObjectBase_new == Signals_empty

\* signal() that adds to the active signals
ObjectBase_signal_ors(active, signals) == active \cup signals

\* ObjectBase::signal(signals): the active signals become signals
ObjectBase_signal(active, signals) == signals

\* raise() that replaces the active signals
ObjectBase_raise_replaces(active, signals) == signals

\* ObjectBase::raise(signals): signals are ORed into the active signals
ObjectBase_raise(active, signals) == active \cup signals

NoOp == [op |-> "new", signals |-> Signals_empty, before |-> Signals_empty]

\* base.signal(Arch, signals)
Signal ==
    /\ \E signals \in Signals :
          /\ active_signals' = ObjectBase_signal(active_signals, signals)
          /\ last_op' = [op |-> "signal", signals |-> signals,
                         before |-> active_signals]
    /\ UNCHANGED tvars
    /\ UNCHANGED ivars
    /\ UNCHANGED <<access, last_install, cvars>>

\* base.raise(Arch, signals)
Raise ==
    /\ \E signals \in Signals :
          /\ active_signals' = ObjectBase_raise(active_signals, signals)
          /\ last_op' = [op |-> "raise", signals |-> signals,
                         before |-> active_signals]
    /\ UNCHANGED tvars
    /\ UNCHANGED ivars
    /\ UNCHANGED <<access, last_install, cvars>>

----------------------------------------------------------------------------
(* The IPC notification test: the server of                                 *)
(* tests/ipc_notification/user/server.rs and the client of client.rs on one *)
(* channel.  A message is a sequence of bytes.  The kernel side of the      *)
(* syscalls (channel_transact, channel_read, channel_respond, object_wait,  *)
(* raise_peer_user_signal) follows the documentation of the two tests and   *)
(* of kernel/tests/object_signals.rs.                                       *)

Op_Echo == 1
Op_Transform == 2
Op_Batch == 3
Op_NotifyTest == 4
Op_CheckUserSignal == 5

\* Op::try_from
Op_try_from(value) ==
    IF value \in {Op_Echo, Op_Transform, Op_Batch, Op_NotifyTest,
                  Op_CheckUserSignal}
    THEN <<"Ok", value>>
    ELSE <<"Err", "InvalidArgument">>

\* let mut request = [0u8; 64]; let mut response = [0u8; 64];
RequestBufLen == 64
ResponseBufLen == 64

Min(a, b) == IF a < b THEN a ELSE b

\* u8::to_ascii_uppercase: 'a'..'z' (97..122) become 'A'..'Z', all else stays
to_ascii_uppercase_identity(b) == b

to_ascii_uppercase(b) == IF b \in 97..122 THEN b - 32 ELSE b

wrapping_add(a, b) == (a + b) % 256

\* the handlers return <<"Ok", response[..len]>> or <<"Err", error>>
handle_echo(request) ==
    LET len == Min(Len(request), ResponseBufLen)
    IN  <<"Ok", SubSeq(request, 1, len)>>

handle_transform(request) ==
    IF request = <<>> THEN <<"Err", "InvalidArgument">>
    ELSE LET len == Min(Len(request), ResponseBufLen)
         IN  <<"Ok", [i \in 1..len |->
                        IF i = 1 THEN request[1]
                        ELSE to_ascii_uppercase(request[i])]>>

handle_batch(request) ==
    IF Len(request) < 3 THEN <<"Err", "InvalidArgument">>
    ELSE <<"Ok", <<request[1], request[2], request[3],
                   wrapping_add(request[2], request[3])>>>>

\* raise_peer_user_signal: USER is raised on the peer's end of the channel
raise_peer_user_signal(peer_active) == ObjectBase_raise(peer_active, {"USER"})

\* handle_notify_test, given the outcome of its raise_peer_user_signal
handle_notify_test(raised) ==
    IF raised = "Ok" THEN <<"Ok", <<0>>>> ELSE <<"Err", raised>>

\* object_wait with the deadline Instant::from_ticks(0): the active signals
\* if one of the awaited signals is active, DeadlineExceeded otherwise
object_wait_nonblocking(active, signal_mask) ==
    IF active \cap signal_mask # {} THEN <<"Ok", active>>
    ELSE <<"Err", "DeadlineExceeded">>

handle_check_user_signal(active) ==
    LET waited == object_wait_nonblocking(active, {"USER"})
        user_signal_set == IF waited[1] = "Ok" THEN "USER" \in waited[2]
                           ELSE FALSE
    IN  <<"Ok", <<Op_CheckUserSignal, IF user_signal_set THEN 1 ELSE 0>>>>

\* channel_transact on the handler's end with signal() in place of raise()
channel_transact_signals_clobbering(handler_active) ==
    ObjectBase_signal(handler_active, {"READABLE"})

\* channel_transact: the transaction becomes pending and READABLE is raised
\* on the handler's end of the channel
channel_transact_signals(handler_active) ==
    ObjectBase_raise(handler_active, {"READABLE"})

\* channel_read: the pending request copied into the buffer; the length read
channel_read(request, buffer_len) == SubSeq(request, 1, Min(Len(request), buffer_len))

\* channel_respond on the handler's end: the transaction is over and READABLE
\* is no longer active; whether the other signals stay is left open
channel_respond_signals(handler_active) ==
    {handler_active \ {"READABLE"}, Signals_empty}

\* the bytes server_loop hands to channel_respond for the request it read:
\* the body of the loop after channel_read, given the handler's result
ServerReply_never_errors(request, handled) ==
    IF Len(request) = 0 THEN <<255>>
    ELSE IF Op_try_from(request[1])[1] = "Err" THEN <<254>>
    ELSE IF handled[1] = "Ok" THEN handled[2] ELSE <<>>

ServerReply(request, handled) ==
    IF Len(request) = 0 THEN <<255>>
    ELSE IF Op_try_from(request[1])[1] = "Err" THEN <<254>>
    ELSE IF handled[1] = "Ok" THEN handled[2] ELSE <<253>>

\* the match on op of server_loop
Dispatch(request, handler_active, raised) ==
    CASE request[1] = Op_Echo -> handle_echo(request)
      [] request[1] = Op_Transform -> handle_transform(request)
      [] request[1] = Op_Batch -> handle_batch(request)
      [] request[1] = Op_NotifyTest -> handle_notify_test(raised)
      [] request[1] = Op_CheckUserSignal -> handle_check_user_signal(handler_active)
      [] OTHER -> <<"Err", "InvalidArgument">>

\* the requests of the client: those of its tests, and every message of an
\* operation byte followed by a short payload (and the empty message)
PayloadLenMax == 2

OpBytes == {0, 1, 2, 3, 4, 5, 6, 255}

\* 0, 'A', 'a', 'z', '{' and 200
PayloadBytes == {0, 65, 97, 122, 123, 200}

TestRequests ==
    {<<1, 222, 173, 190, 239>>, <<2, 104, 101, 108, 108, 111>>, <<1, 66>>,
     <<4>>, <<5>>}
    \cup {<<3, i, (i * 2) % 256>> : i \in 0..4}

\* a request that fills the server's request buffer
FullRequests == {[i \in 1..RequestBufLen |-> IF i = 1 THEN op ELSE 97] : op \in {1, 2}}

ClientRequests ==
    {<<>>} \cup TestRequests \cup FullRequests
    \cup UNION {{<<op>> \o p : op \in OpBytes, p \in [1..n -> PayloadBytes]} :
                n \in 0..PayloadLenMax}

NoMessage == <<>>

IpcIdle ==
    /\ server = [pc |-> "wait", request |-> NoMessage, reply |-> NoMessage,
                 served |-> FALSE, answers |-> 0]
    /\ client = [pc |-> "ready", notified |-> FALSE]
    /\ channel = [state |-> "idle", request |-> NoMessage, response |-> NoMessage]
    /\ handler_signals = Signals_empty
    /\ initiator_signals = Signals_empty

\* client: syscall::raise_peer_user_signal(handle::SERVER)
ClientRaise ==
    /\ client.pc = "ready"
    /\ handler_signals' = raise_peer_user_signal(handler_signals)
    /\ client' = [client EXCEPT !.notified = TRUE]
    /\ UNCHANGED <<server, channel, initiator_signals>>
    /\ UNCHANGED <<tvars, ivars, access, last_install, svars>>

\* client: syscall::channel_transact(handle::SERVER, &send_buf, ..) is entered
ClientTransact(send_buf) ==
    /\ client.pc = "ready"
    /\ channel.state = "idle"
    /\ channel' = [state |-> "pending", request |-> send_buf,
                   response |-> NoMessage]
    /\ handler_signals' = channel_transact_signals(handler_signals)
    /\ client' = [client EXCEPT !.pc = "blocked"]
    /\ UNCHANGED <<server, initiator_signals>>
    /\ UNCHANGED <<tvars, ivars, access, last_install, svars>>

\* client: channel_transact returns with the response; the test goes on
ClientReturn ==
    /\ client.pc = "blocked"
    /\ channel.state = "answered"
    /\ channel' = [state |-> "idle", request |-> NoMessage,
                   response |-> NoMessage]
    /\ client' = [pc |-> "ready", notified |-> FALSE]
    /\ UNCHANGED <<server, handler_signals, initiator_signals>>
    /\ UNCHANGED <<tvars, ivars, access, last_install, svars>>

\* server: object_wait(handle::IPC, Signals::READABLE, Instant::MAX) returns
ServerWait ==
    /\ server.pc = "wait"
    /\ "READABLE" \in handler_signals
    /\ server' = [server EXCEPT !.pc = "read"]
    /\ UNCHANGED <<client, channel, handler_signals, initiator_signals>>
    /\ UNCHANGED <<tvars, ivars, access, last_install, svars>>

\* server: channel_read(handle::IPC, 0, &mut request)
ServerRead ==
    /\ server.pc = "read"
    /\ channel.state = "pending"
    /\ server' = [server EXCEPT
                    !.pc = "handle",
                    !.request = channel_read(channel.request, RequestBufLen),
                    !.served = TRUE,
                    !.answers = 0]
    /\ UNCHANGED <<client, channel, handler_signals, initiator_signals>>
    /\ UNCHANGED <<tvars, ivars, access, last_install, svars>>

\* server: the request is parsed and its handler runs; handle_notify_test
\* raises USER on the client's end
ServerHandle ==
    /\ server.pc = "handle"
    /\ LET request == server.request
           notifies == request # <<>> /\ request[1] = Op_NotifyTest
           handled == IF request = <<>> THEN <<"Err", "InvalidArgument">>
                      ELSE Dispatch(request, handler_signals, "Ok")
       IN  /\ server' = [server EXCEPT !.pc = "respond",
                                       !.reply = ServerReply(request, handled)]
           /\ initiator_signals' =
                IF notifies THEN raise_peer_user_signal(initiator_signals)
                ELSE initiator_signals
    /\ UNCHANGED <<client, channel, handler_signals>>
    /\ UNCHANGED <<tvars, ivars, access, last_install, svars>>

\* server: channel_respond(handle::IPC, ..); the loop goes back to its wait
ServerRespond ==
    /\ server.pc = "respond"
    /\ channel.state = "pending"
    /\ channel' = [channel EXCEPT !.state = "answered",
                                  !.response = server.reply]
    /\ handler_signals' \in channel_respond_signals(handler_signals)
    /\ server' = [server EXCEPT !.pc = "wait", !.request = NoMessage,
                                !.reply = NoMessage,
                                !.answers = server.answers + 1]
    /\ UNCHANGED <<client, initiator_signals>>
    /\ UNCHANGED <<tvars, ivars, access, last_install, svars>>

----------------------------------------------------------------------------
(* Specifications *)

NoAligned == Rejected("None")

NoInstall ==
    [config |-> 0, mpu |-> MpuReset(0), previous |-> 0, repeated |-> FALSE]

TranslatorIdle ==
    /\ tpc = "call"
    /\ aligned = NoAligned
    /\ mpu_region = const_default

InstallerIdle ==
    /\ cfg_status = [t \in Threads |-> "none"]
    /\ memory_config = [t \in Threads |-> NoConfig]
    /\ pc = [t \in Threads |-> "idle"]
    /\ idx = [t \in Threads |-> 0]

\* the translator applied to one request
TInit ==
    /\ overflow_checks \in BOOLEAN
    /\ region \in {r \in Requests : ULt(r.start, r.end)}
    /\ TranslatorIdle
    /\ static_regions = [t \in Threads |-> KernelRegions]
    /\ InstallerIdle
    /\ mpu = MpuReset(0)
    /\ access = NoAccess
    /\ last_install = NoInstall
    /\ active_signals = ObjectBase_new
    /\ last_op = NoOp
    /\ IpcIdle

\* one call of from_memory_region(&region)
FromMemoryRegion ==
    /\ tpc = "call"
    /\ LET res == from_memory_region(region, overflow_checks)
       IN  /\ aligned' = res.aligned
           /\ mpu_region' = res.region
           /\ tpc' = IF res.status = "Ok" THEN "returned" ELSE "failed"
    /\ UNCHANGED <<overflow_checks, region>>
    /\ UNCHANGED ivars
    /\ UNCHANGED xvars

TNext == FromMemoryRegion

SpecTranslate == TInit /\ [][TNext]_vars

\* CTRL as the first write() finds it: each of enable, hfnmiena and
\* privdefena both clear and set
CtrlBefore == {0, 3, 4, 7}

\* MemoryConfigs are built, then written to the MPU by the threads' switches
IInit ==
    /\ overflow_checks \in BOOLEAN
    /\ region = KernelRegions[1]
    /\ TranslatorIdle
    /\ static_regions \in [Threads -> RegionLists]
    /\ InstallerIdle
    /\ \E ctrl \in CtrlBefore : mpu = MpuReset(ctrl)
    /\ access = NoAccess
    /\ last_install = NoInstall
    /\ active_signals = ObjectBase_new
    /\ last_op = NoOp
    /\ IpcIdle

INext ==
    \E t \in Threads :
        \/ ConstNew(t)
        \/ InstallBegin(t)
        \/ WriteRnr(t)
        \/ WriteRbar(t)
        \/ WriteRasr(t)
        \/ InstallEnable(t)
        \/ InstallReturn(t)

SpecInstall == IInit /\ [][INext]_vars

\* MemoryConfigs are built, then asked about address ranges; thread 2 runs
\* under KERNEL_THREAD_MEMORY_CONFIG
AInit ==
    /\ overflow_checks \in BOOLEAN
    /\ region = KernelRegions[1]
    /\ TranslatorIdle
    /\ \E regions \in AccessLists :
          static_regions = [t \in Threads |-> IF t = 1 THEN regions
                                              ELSE KernelRegions]
    /\ InstallerIdle
    /\ mpu = MpuReset(0)
    /\ access = NoAccess
    /\ last_install = NoInstall
    /\ active_signals = ObjectBase_new
    /\ last_op = NoOp
    /\ IpcIdle

ANext ==
    \E t \in Threads :
        \/ ConstNew(t)
        \/ RangeHasAccess(t)

SpecAccess == AInit /\ [][ANext]_vars

\* one kernel object, signalled and raised in any order
SInit ==
    /\ overflow_checks \in BOOLEAN
    /\ region = KernelRegions[1]
    /\ TranslatorIdle
    /\ static_regions = [t \in Threads |-> KernelRegions]
    /\ InstallerIdle
    /\ mpu = MpuReset(0)
    /\ access = NoAccess
    /\ last_install = NoInstall
    /\ active_signals = ObjectBase_new
    /\ last_op = NoOp
    /\ IpcIdle

SNext == Signal \/ Raise

SpecSignals == SInit /\ [][SNext]_vars

\* the client and the server of the IPC notification test on their channel
CInit ==
    /\ overflow_checks = TRUE
    /\ region = KernelRegions[1]
    /\ TranslatorIdle
    /\ static_regions = [t \in Threads |-> KernelRegions]
    /\ InstallerIdle
    /\ mpu = MpuReset(0)
    /\ access = NoAccess
    /\ last_install = NoInstall
    /\ active_signals = ObjectBase_new
    /\ last_op = NoOp
    /\ IpcIdle

CNext ==
    \/ ClientRaise
    \/ \E send_buf \in ClientRequests : ClientTransact(send_buf)
    \/ ClientReturn
    \/ ServerWait
    \/ ServerRead
    \/ ServerHandle
    \/ ServerRespond

SpecIpc == CInit /\ [][CNext]_vars


----------------------------------------------------------------------------
(* Properties of the translator, checked under SpecTranslate *)

Accepted == tpc = "returned"

\* the region size described by a SIZE field, possibly 2^32 (hi = 2^16)
SizeOfField(size_field) == Pow2U(size_field + 1)

\* x is a multiple of 2^k
MultipleOfPow2(x, k) ==
    IF k <= 16 THEN Lo(x) % 2^k = 0
    ELSE Lo(x) = 0 /\ Hi(x) % 2^(k - 16) = 0

\* the largest multiple of 2^k that is <= x
FloorPow2(x, k) ==
    IF k <= 16 THEN <<Hi(x), Lo(x) - (Lo(x) % 2^k)>>
    ELSE <<Hi(x) - (Hi(x) % 2^(k - 16)), 0>>

\* end - start, for start <= end
RequestSize(r) == SubWide(r.end, r.start)

\* C1: every accepted request [start, end) gets a region (base, rs), rs =
\* 2^(size_field+1), with base a multiple of rs, base <= start and
\* base + rs >= end.
C1_AlignedRegionEncloses ==
    Accepted =>
        LET rs == SizeOfField(aligned.size_field)
        IN  /\ MultipleOfPow2(aligned.base, aligned.size_field + 1)
            /\ ULe(aligned.base, region.start)
            /\ ULe(region.end, AddWide(aligned.base, rs))

C1_Witness ==
    /\ Accepted
    /\ ULt(aligned.base, region.start)
    /\ ULt(region.end, AddWide(aligned.base, SizeOfField(aligned.size_field)))

SrdBit(srd_mask, i) == (srd_mask \div 2^i) % 2 = 1

\* sub-region i of the emitted region: [base + i * rs/8, base + (i+1) * rs/8)
SubStart(a, i) == AddWide(a.base, MulWide(Pow2U(a.size_field - 2), i))
SubEnd(a, i) == AddWide(a.base, MulWide(Pow2U(a.size_field - 2), i + 1))

SubDisjoint(a, i, r) == ULe(SubEnd(a, i), r.start) \/ ULe(r.end, SubStart(a, i))

\* C2: for every accepted request and every i in 0..7, bit i of srd_mask is
\* set iff sub-region i is disjoint from [start, end).
C2_SrdIffDisjoint ==
    Accepted =>
        \A i \in 0..7 : SrdBit(aligned.srd_mask, i) <=> SubDisjoint(aligned, i, region)

C2_Witness ==
    /\ Accepted
    /\ \E i \in 0..7 : SrdBit(aligned.srd_mask, i)
    /\ \E i \in 0..7 : ~SrdBit(aligned.srd_mask, i)
    /\ \E i \in 0..7 : SubEnd(aligned, i) = region.start

\* the request lies within one 32-byte aligned block
InOne32ByteBlock(r) == ULe(r.end, AddWide(FloorPow2(r.start, 5), U(0, 32)))

RegionSizeShape ==
    /\ \E k \in 5..31 : /\ aligned.region_size = Pow2U(k)
                        /\ aligned.size_field = k - 1
    /\ aligned.size_field \in 4..30

\* C3 as stated: for every accepted request rs is a power of two in
\* 32 .. 2^31 and size_field = log2(rs) - 1 lies in 4..30, and every request
\* smaller than 32 bytes yields rs = 32 and size_field = 4.
C3_AsStated ==
    Accepted =>
        /\ RegionSizeShape
        /\ (ULt(RequestSize(region), U(0, 32)) =>
                aligned.region_size = U(0, 32) /\ aligned.size_field = 4)

\* C3 amended: the same, but a request smaller than 32 bytes yields rs = 32
\* and size_field = 4 exactly when it lies within one 32-byte aligned block
\* (otherwise rs > 32).
C3_SizeField ==
    Accepted =>
        /\ RegionSizeShape
        /\ (ULt(RequestSize(region), U(0, 32)) =>
                (InOne32ByteBlock(region) <=>
                    aligned.region_size = U(0, 32) /\ aligned.size_field = 4))

C3_Witness ==
    /\ Accepted
    /\ ULt(RequestSize(region), U(0, 32))
    /\ aligned.size_field = 4
    /\ aligned.region_size = U(0, 32)

\* C4: a request with end - start > 2^31 is rejected by the size check and no
\* descriptor is produced (in particular not the 2 GiB region at base 0).
C4_OversizeRejected ==
    (tpc # "call" /\ ULt(U(32768, 0), RequestSize(region))) =>
        /\ tpc = "failed"
        /\ aligned.status = "SizeExceeds"
        /\ mpu_region = const_default

C4_Witness ==
    /\ tpc = "failed"
    /\ aligned.status = "SizeExceeds"
    /\ ULt(U(32768, 0), RequestSize(region))

\* some power of two rs in 32 .. 2^31 has an rs-aligned block enclosing r
LegalRegionExists(r) ==
    \E k \in 5..31 : ULe(r.end, AddWide(FloorPow2(r.start, k), Pow2U(k)))

\* C5: a nonempty request is rejected iff no legal aligned region encloses
\* it; every request that a legal aligned region can enclose is accepted.
C5_RejectedIffNoLegalRegion ==
    tpc # "call" => (tpc = "failed" <=> ~LegalRegionExists(region))

ExpectedAttributes(ty) ==
    CASE ty = "ReadOnlyData" -> <<1, 1, 1, 1, 1, 6>>
      [] ty = "ReadWriteData" -> <<1, 1, 0, 1, 1, 3>>
      [] ty = "ReadOnlyExecutable" -> <<0, 1, 1, 1, 1, 6>>
      [] ty = "ReadWriteExecutable" -> <<0, 1, 1, 1, 1, 3>>
      [] ty = "Device" -> <<1, 0, 1, 0, 1, 6>>

\* the tuple (xn, tex, S, C, B, ap) read back from a RASR value
DecodedAttributes(rasr) ==
    <<B2N(Rasr_xn(rasr)), Rasr_tex(rasr), B2N(Rasr_s(rasr)), B2N(Rasr_c(rasr)),
      B2N(Rasr_b(rasr)), Rasr_ap(rasr)>>

\* C6: the attribute tuple (xn, tex, S, C, B, ap) in the RASR value built by
\* from_memory_region is the table entry of the region's kind.
C6_AttributesPerKind ==
    Accepted => DecodedAttributes(mpu_region.rasr) = ExpectedAttributes(region.ty)

C6_Witness ==
    /\ Accepted
    /\ region.ty = "ReadWriteData"
    /\ DecodedAttributes(mpu_region.rasr) = <<1, 1, 0, 1, 1, 3>>

\* the sub-regions the emitted SRD mask leaves enabled
EnabledSubregions == {i \in 0..7 : ~SrdBit(aligned.srd_mask, i)}

\* the sub-region stride rs / 8
Stride == Pow2U(aligned.size_field - 2)

\* bytes the enabled sub-region i makes accessible before start and beyond end
\* (0 when it has none)
BytesBefore(i) ==
    IF ULt(SubStart(aligned, i), region.start)
    THEN SubWide(region.start, SubStart(aligned, i)) ELSE U(0, 0)

BytesBeyond(i) ==
    IF ULt(region.end, SubEnd(aligned, i))
    THEN SubWide(SubEnd(aligned, i), region.end) ELSE U(0, 0)

\* C13: for every accepted request, with s = rs / 8, the enabled sub-regions
\* reach at most s - 1 bytes before start and at most s - 1 bytes beyond end.
C13_OverProvisionBelowStride ==
    Accepted =>
        \A i \in EnabledSubregions :
            /\ ULt(BytesBefore(i), Stride)
            /\ ULt(BytesBeyond(i), Stride)

C13_Witness ==
    /\ Accepted
    /\ \E i \in EnabledSubregions :
          BytesBefore(i) = SubWide(Stride, U(0, 1))
    /\ \E i \in EnabledSubregions :
          BytesBeyond(i) = SubWide(Stride, U(0, 1))
    /\ ULt(U(0, 4), Stride)

\* C14: for every accepted nonempty request srd_mask is not 0xFF: at least
\* one sub-region of the emitted region is enabled.
C14_SomeSubregionEnabled ==
    (Accepted /\ ULt(region.start, region.end)) =>
        /\ aligned.srd_mask # 255
        /\ Rasr_srd(mpu_region.rasr) # 255

C14_Witness ==
    /\ Accepted
    /\ ULt(region.start, region.end)
    /\ Cardinality(EnabledSubregions) = 1
    /\ Rasr_srd(mpu_region.rasr) = aligned.srd_mask

\* the request is a whole aligned power-of-two block of size 2^k
AlignedBlock(r, k) ==
    /\ ULt(r.start, r.end)
    /\ RequestSize(r) = Pow2U(k)
    /\ MultipleOfPow2(r.start, k)

\* the translation ended with base, rs, size_field and srd_mask as given
Emitted(base, rs, size_field, srd_mask) ==
    /\ Accepted
    /\ aligned.base = base
    /\ aligned.region_size = rs
    /\ aligned.size_field = size_field
    /\ aligned.srd_mask = srd_mask
    /\ Rbar_addr(mpu_region.rbar) = base
    /\ Rasr_size(mpu_region.rasr) = size_field
    /\ Rasr_srd(mpu_region.rasr) = srd_mask

Translated == tpc # "call"

\* C16: a request whose size is a power of two 2^k, 32 <= 2^k <= 2^31, and
\* whose start is a multiple of it gets base = start, rs = end - start,
\* size_field = k - 1 and srd_mask = 0; so [0x2000_0000, 0x2000_4000) gets
\* size_field 13, [0, 0x0002_0000) gets 16 and the kernel-wide
\* [0, 0x8000_0000) gets base 0 and size_field 30.
C16_AlignedBlockIsExact ==
    Translated =>
        /\ \A k \in 5..31 :
              AlignedBlock(region, k) =>
                  Emitted(region.start, RequestSize(region), k - 1, 0)
        /\ (region.start = U(8192, 0) /\ region.end = U(8192, 16384)) =>
              Emitted(U(8192, 0), U(0, 16384), 13, 0)
        /\ (region.start = U(0, 0) /\ region.end = U(2, 0)) =>
              Emitted(U(0, 0), U(2, 0), 16, 0)
        /\ (region.start = U(0, 0) /\ region.end = U(32768, 0)) =>
              Emitted(U(0, 0), U(32768, 0), 30, 0)

C16_Witness ==
    /\ region = KernelRegions[1]
    /\ AlignedBlock(region, 31)
    /\ Emitted(U(0, 0), U(32768, 0), 30, 0)

\* the ReadWriteData request [0x2000_0100, 0x2000_0200) was translated
Scenario4Translated ==
    /\ Translated
    /\ region = MemoryRegion_new("ReadWriteData", U(8192, 256), U(8192, 512))

\* C17 as stated: that request yields base 0x2000_0000, rs = 512,
\* size_field 8, sub-region size 64 and srd_mask 0x0F.
C17_AsStated ==
    Scenario4Translated =>
        /\ Emitted(U(8192, 0), U(0, 512), 8, 15)
        /\ Stride = U(0, 64)

\* C17 amended: the request is a 256-byte block at a 256-byte aligned start
\* and yields base 0x2000_0100, rs = 256, size_field 7, sub-region size 32
\* and srd_mask 0x00 (all eight sub-regions enabled).
C17_Scenario4 ==
    Scenario4Translated =>
        /\ Emitted(U(8192, 256), U(0, 256), 7, 0)
        /\ Stride = U(0, 32)

C17_Witness ==
    /\ Scenario4Translated
    /\ Emitted(U(8192, 256), U(0, 256), 7, 0)
    /\ EnabledSubregions = 0..7

\* the 2^k-aligned block holding start encloses [start, end)
BlockEncloses(r, k) == ULe(r.end, AddWide(FloorPow2(r.start, k), Pow2U(k)))

\* C22: for every accepted nonempty request the emitted rs = 2^(size_field+1)
\* is the smallest power of two >= 32 with an rs-aligned block of size rs
\* enclosing [start, end): that block encloses it and no smaller one does.
C22_SmallestEnclosingRegion ==
    (Accepted /\ ULt(region.start, region.end)) =>
        /\ aligned.region_size = SizeOfField(aligned.size_field)
        /\ aligned.base = FloorPow2(region.start, aligned.size_field + 1)
        /\ BlockEncloses(region, aligned.size_field + 1)
        /\ \A k \in 5..aligned.size_field : ~BlockEncloses(region, k)

C22_Witness ==
    /\ Accepted
    /\ ULt(RequestSize(region), U(0, 32))
    /\ aligned.size_field >= 12
    /\ \A k \in 5..aligned.size_field : ~BlockEncloses(region, k)

\* the request has 32-bit addresses, is nonempty and passes the size check
WithinSizeLimit ==
    /\ ULt(region.start, region.end)
    /\ ULe(RequestSize(region), MAX_REGION_SIZE)

\* an intermediate value of calculate_aligned_region left the 32-bit range:
\* the panic of a build with overflow checks, or the wrapped value that
\* keeps the alignment loop from ending in a build without
ArithmeticOverflowed == aligned.status \in {"Overflow", "Hang"}

\* C26: for every request with 32-bit addresses and end - start <= 2^31 no
\* intermediate value of calculate_aligned_region exceeds 2^32 - 1, also for
\* requests in the topmost aligned block of the address space.
C26_NoOverflow ==
    (Translated /\ WithinSizeLimit) => ~ArithmeticOverflowed

\* the request [0x1000, 0x1100) of the security note was translated
SecurityNoteTranslated ==
    /\ Translated
    /\ region.start = U(0, 4096)
    /\ region.end = U(0, 4352)

C30_RoundingNeverFails ==
    (Translated /\ WithinSizeLimit) =>
        LET rounded == RoundLoop(U(0, 32), RequestSize(region), overflow_checks)
        IN  /\ rounded[1] = "Ok"
            /\ ULe(rounded[2], MAX_REGION_SIZE)
            /\ aligned.status \notin {"SizeExceeds", "RoundExceeds"}
            /\ (tpc = "failed" =>
                  AlignLoop(rounded[2], AlignDown(region.start, rounded[2]),
                            region.start, region.end, overflow_checks)[1] # "Ok")

C30_Witness ==
    /\ Accepted
    /\ ULt(Pow2U(30), RequestSize(region))
    /\ ULt(RequestSize(region), MAX_REGION_SIZE)
    /\ aligned.region_size = MAX_REGION_SIZE

\* the RASR value with exactly the given fields and every other bit clear
RasrOf(enable, size, srd, attrs) ==
    enable + size * 2 + srd * 2^8 + attrs[5] * 2^16 + attrs[4] * 2^17
    + attrs[3] * 2^18 + attrs[2] * 2^19 + attrs[6] * 2^24 + attrs[1] * 2^28

\* C24: the descriptor built by from_memory_region holds the computed
\* values: RBAR.addr is base with bits 4:0 zero (VALID and REGION clear),
\* RASR.size is size_field, RASR.srd is srd_mask, RASR.enable is 1, the
\* attribute fields are the tuple of the kind, and no other bit is set, so
\* no field write disturbed another field.
C24_DescriptorEncodesValues ==
    Accepted =>
        /\ Rbar_addr(mpu_region.rbar) = aligned.base
        /\ Lo(mpu_region.rbar) % 32 = 0
        /\ Rasr_size(mpu_region.rasr) = aligned.size_field
        /\ Rasr_srd(mpu_region.rasr) = aligned.srd_mask
        /\ Rasr_enable(mpu_region.rasr)
        /\ DecodedAttributes(mpu_region.rasr) = ExpectedAttributes(region.ty)
        /\ mpu_region.rasr = RasrOf(1, aligned.size_field, aligned.srd_mask,
                                    ExpectedAttributes(region.ty))

C24_Witness ==
    /\ Accepted
    /\ aligned.srd_mask # 0
    /\ Hi(aligned.base) # 0
    /\ Lo(aligned.base) # 0
    /\ Rasr_size(mpu_region.rasr) = aligned.size_field
    /\ Rasr_srd(mpu_region.rasr) = aligned.srd_mask

----------------------------------------------------------------------------
(* Properties of MemoryConfig and of the programmer, checked under SpecInstall *)

CtrlBit(n) == (mpu.ctrl \div 2^n) % 2

AllDefault == [i \in Slots |-> [rbar |-> <<0, 0>>, rasr |-> 0]]

InProgress(t) == pc[t] \in {"rnr", "rbar", "rasr", "enable"}

\* C7: when write() has returned, CTRL.enable = 1, CTRL.privdefena = 1,
\* CTRL.hfnmiena = 0 and every hardware region i holds the (RBAR, RASR) pair
\* of the configuration's slot i.
C7_InstalledEqualsConfig ==
    \A t \in Threads :
        pc[t] = "done" =>
            /\ CtrlBit(0) = 1
            /\ CtrlBit(1) = 0
            /\ CtrlBit(2) = 1
            /\ \A i \in Slots :
                 /\ mpu.regions[i].rbar = memory_config[t].mpu_regions[i].rbar
                 /\ mpu.regions[i].rasr = memory_config[t].mpu_regions[i].rasr

C7_Witness ==
    \E t \in Threads :
        /\ pc[t] = "done"
        /\ Len(memory_config[t].generic_regions) = 3
        /\ mpu.regions[2].rasr # 0
        /\ mpu.regions[3].rasr = 0

\* C8: while write() is between its two CTRL writes (every RNR, RBAR and
\* RASR write lies there) CTRL.enable = 0 and CTRL.privdefena = 1; whenever
\* the MPU is enabled the region registers hold a whole region set (the
\* reset contents or one configuration), never a partially rewritten one.
C8_RegionsWrittenWhileDisabled ==
    /\ \A t \in Threads : InProgress(t) => CtrlBit(0) = 0 /\ CtrlBit(2) = 1
    /\ CtrlBit(0) = 1 =>
         \/ mpu.regions = AllDefault
         \/ \E t \in Threads : mpu.regions = memory_config[t].mpu_regions

C8_Witness ==
    \E t \in Threads :
        /\ pc[t] = "rbar"
        /\ idx[t] = 1
        /\ CtrlBit(0) = 0
        /\ mpu.regions # AllDefault
        /\ \A u \in Threads : mpu.regions # memory_config[u].mpu_regions

\* C9: of two write() calls on the same MPU one completes before the other
\* begins: at no time are two of them in progress, and when none is in
\* progress the region registers hold the reset contents or one
\* configuration entirely.
C9_InstallsDoNotInterleave ==
    /\ Cardinality({t \in Threads : pc[t] # "idle"}) <= 1
    /\ (\A t \in Threads : ~InProgress(t)) =>
         \/ mpu.regions = AllDefault
         \/ \E t \in Threads : mpu.regions = memory_config[t].mpu_regions

C9_Witness ==
    /\ pc[1] = "idle"
    /\ pc[2] = "rasr"
    /\ idx[2] = 1
    /\ Len(memory_config[1].generic_regions) = NUM_MPU_REGIONS
    /\ mpu.regions[7] = memory_config[1].mpu_regions[7]
    /\ mpu.regions[0] = memory_config[2].mpu_regions[0]
    /\ mpu.regions[0] # memory_config[1].mpu_regions[0]

\* C10: for a source list of length L <= NUM_MPU_REGIONS const_new yields a
\* configuration whose slot i is the translation of list[i] for i < L and the
\* inert descriptor (RBAR = 0, RASR = 0, so enable = 0) for L <= i, and that
\* retains the source list.
C10_ConstNewSlots ==
    [][\A t \in Threads :
        (/\ cfg_status[t] = "none"
         /\ cfg_status'[t] # "none"
         /\ Len(static_regions[t]) <= NUM_MPU_REGIONS) =>
            /\ cfg_status'[t] = "Ok"
            /\ memory_config'[t].generic_regions = static_regions[t]
            /\ \A i \in Slots :
                 IF i < Len(static_regions[t])
                 THEN /\ memory_config'[t].mpu_regions[i] =
                           from_memory_region(static_regions[t][i + 1],
                                              overflow_checks).region
                      /\ memory_config'[t].mpu_regions[i].rasr % 2 = 1
                 ELSE /\ memory_config'[t].mpu_regions[i].rbar = <<0, 0>>
                      /\ memory_config'[t].mpu_regions[i].rasr = 0]_vars

C10_Witness ==
    \E t \in Threads :
        /\ cfg_status[t] = "Ok"
        /\ Len(static_regions[t]) = 3
        /\ memory_config[t].mpu_regions[2].rasr % 2 = 1
        /\ memory_config[t].mpu_regions[3].rasr = 0

\* C11: const_new applied to a list longer than NUM_MPU_REGIONS (of regions
\* that each translate) ends in the out-of-bounds failure of the slot store
\* (TooManyRegions) and yields no MemoryConfig; it never returns a
\* configuration built from a part of the list.
C11_TooManyRegions ==
    \A t \in Threads :
        (cfg_status[t] # "none" /\ Len(static_regions[t]) > NUM_MPU_REGIONS) =>
            /\ cfg_status[t] = "IndexOutOfBounds"
            /\ memory_config[t] = NoConfig

C11_Witness ==
    \E t \in Threads :
        /\ Len(static_regions[t]) = NUM_MPU_REGIONS + 1
        /\ cfg_status[t] = "IndexOutOfBounds"

\* the region registers as the write() in progress found them
RegionsBefore ==
    IF last_install.config \in Threads THEN last_install.mpu.regions
    ELSE AllDefault

\* C23: write() handles the slots in ascending order and, for slot i, writes
\* RNR.region = i, then RBAR, then RASR; every stored RBAR has VALID = 0 and
\* REGION = 0, so every RBAR and RASR write lands in the region selected by
\* the last RNR write: the slots below i hold their descriptors, slot i the
\* part written so far, and the slots above i are untouched.
C23_WritesFollowRnr ==
    \A t \in Threads :
        /\ cfg_status[t] = "Ok" =>
              \A i \in Slots :
                  /\ ~Rbar_valid(memory_config[t].mpu_regions[i].rbar)
                  /\ Rbar_region(memory_config[t].mpu_regions[i].rbar) = 0
        /\ pc[t] \in {"rnr", "rbar", "rasr"} =>
              /\ idx[t] \in Slots
              /\ pc[t] \in {"rbar", "rasr"} => mpu.rnr = idx[t]
              /\ \A j \in Slots :
                    mpu.regions[j] =
                        IF j < idx[t] THEN memory_config[t].mpu_regions[j]
                        ELSE IF j = idx[t] /\ pc[t] = "rasr"
                        THEN [rbar |-> memory_config[t].mpu_regions[j].rbar,
                              rasr |-> RegionsBefore[j].rasr]
                        ELSE RegionsBefore[j]
        /\ pc[t] = "enable" =>
              /\ idx[t] = NUM_MPU_REGIONS
              /\ mpu.regions = memory_config[t].mpu_regions

C23_Witness ==
    \E t \in Threads :
        /\ pc[t] = "rasr"
        /\ idx[t] = 2
        /\ mpu.rnr = 2
        /\ last_install.config \in Threads
        /\ mpu.regions[2].rbar = memory_config[t].mpu_regions[2].rbar
        /\ mpu.regions[2].rbar # RegionsBefore[2].rbar
        /\ mpu.regions[2].rasr # memory_config[t].mpu_regions[2].rasr
        /\ mpu.regions[3] # memory_config[t].mpu_regions[3]
        /\ mpu.regions[1] # RegionsBefore[1]

\* C25: when write() of configuration B has returned, whatever configuration
\* A was installed before it (also one with more regions), all
\* NUM_MPU_REGIONS slots were rewritten: every slot holds B's descriptor, no
\* slot still holds a descriptor of A that B does not have there, and every
\* slot at or beyond the length of B's source list has RASR.enable = 0.
C25_NoStaleDescriptor ==
    \A t \in Threads :
        pc[t] = "done" =>
            \A i \in Slots :
                /\ mpu.regions[i] = memory_config[t].mpu_regions[i]
                /\ i >= Len(memory_config[t].generic_regions) =>
                      ~Rasr_enable(mpu.regions[i].rasr)
                /\ \A a \in Threads :
                      (/\ last_install.previous = a
                       /\ memory_config[a].mpu_regions[i]
                             # memory_config[t].mpu_regions[i]) =>
                          mpu.regions[i] # memory_config[a].mpu_regions[i]

C25_Witness ==
    \E t \in Threads, a \in Threads :
        /\ pc[t] = "done"
        /\ last_install.config = t
        /\ last_install.previous = a
        /\ Len(memory_config[a].generic_regions) = 5
        /\ Len(memory_config[t].generic_regions) = 2
        /\ \A i \in 2..4 :
              /\ Rasr_enable(memory_config[a].mpu_regions[i].rasr)
              /\ ~Rasr_enable(mpu.regions[i].rasr)

----------------------------------------------------------------------------
(* Properties of the software access check, checked under SpecAccess *)

\* the permission lattice as a table: the request kinds a region of kind ty
\* is at least as permissive as
KindsCoveredBy(ty) ==
    CASE ty = "ReadOnlyData" -> {"ReadOnlyData"}
      [] ty = "ReadWriteData" -> {"ReadOnlyData", "ReadWriteData"}
      [] ty = "ReadOnlyExecutable" -> {"ReadOnlyData", "ReadOnlyExecutable"}
      [] ty = "ReadWriteExecutable" ->
           {"ReadOnlyData", "ReadWriteData", "ReadOnlyExecutable",
            "ReadWriteExecutable"}
      [] ty = "Device" -> {"Device"}

\* some region of the source list of the asked configuration covers the call
SourceListCovers ==
    \E i \in 1..Len(static_regions[access.config]) :
        LET r == static_regions[access.config][i]
        IN  /\ ULe(r.start, access.start_addr)
            /\ ULe(access.end_addr, r.end)
            /\ access.access_type \in KindsCoveredBy(r.ty)

\* C12: range_has_access(kind, a, b) answers true iff some region r of the
\* configuration's source list has r.start <= a, r.end >= b and a kind at
\* least as permissive as kind (Device only by exact match); the hardware
\* descriptors play no part.
C12_RangeHasAccessIffSourceRegion ==
    access.called => (access.result <=> SourceListCovers)

C12_Witness ==
    /\ access.called
    /\ access.result
    /\ access.access_type = "ReadOnlyData"
    /\ \A i \in 1..Len(static_regions[access.config]) :
          static_regions[access.config][i].ty # "ReadOnlyData"
    /\ Len(static_regions[access.config]) >= 2

\* the call range_has_access(ReadWriteData, a, b) was made
AskedReadWrite(a, b) ==
    /\ access.called
    /\ access.access_type = "ReadWriteData"
    /\ access.start_addr = a
    /\ access.end_addr = b

AskedList == static_regions[access.config]

\* C18 as stated: range_has_access(ReadWriteData, 0x2000_0080, 0x2000_0090)
\* is true for the configuration whose only region is ReadWriteData
\* [0x2000_0100, 0x2000_0200) and false for the one whose only region is
\* ReadOnlyData over the same range.
C18_AsStated ==
    AskedReadWrite(U(8192, 128), U(8192, 144)) =>
        /\ (AskedList = Scenario4Regions => access.result)
        /\ (AskedList = Scenario4ReadOnlyRegions => ~access.result)

\* C18 amended: that call is false for both configurations, the range lying
\* below the region; for a range inside the region, [0x2000_0180,
\* 0x2000_0190), the call is true for the ReadWriteData configuration and
\* false for the ReadOnlyData one.
C18_AccessScenario ==
    /\ AskedReadWrite(U(8192, 128), U(8192, 144)) =>
          (AskedList \in {Scenario4Regions, Scenario4ReadOnlyRegions} =>
              ~access.result)
    /\ AskedReadWrite(U(8192, 384), U(8192, 400)) =>
          /\ (AskedList = Scenario4Regions => access.result)
          /\ (AskedList = Scenario4ReadOnlyRegions => ~access.result)

C18_Witness ==
    /\ AskedReadWrite(U(8192, 128), U(8192, 144))
    /\ AskedList = Scenario4Regions
    /\ ~access.result

----------------------------------------------------------------------------
(* Repeated installs, checked under SpecInstall *)

\* C15: when a write() returns and the write() that returned before it wrote
\* the same MemoryConfig, CTRL, RNR and all NUM_MPU_REGIONS region registers
\* are as the earlier write() left them.
C15_InstallIdempotent ==
    [][\A t \in Threads :
        (/\ pc[t] = "enable"
         /\ pc'[t] = "done"
         /\ last_install.config \in Threads
         /\ memory_config[last_install.config] = memory_config[t]) =>
            /\ mpu'.ctrl = last_install.mpu.ctrl
            /\ mpu'.rnr = last_install.mpu.rnr
            /\ \A i \in Slots : mpu'.regions[i] = last_install.mpu.regions[i]]_vars

C15_Witness ==
    /\ last_install.repeated
    /\ last_install.config = 1
    /\ pc[1] = "done"
    /\ Len(memory_config[1].generic_regions) = 3
    /\ memory_config[2] # memory_config[1]
    /\ mpu = last_install.mpu

----------------------------------------------------------------------------
(* Properties of the object signals, checked under SpecSignals *)

\* C19: after signal(s), whatever calls came before, the active signals are
\* exactly s; signal(empty) leaves none active, also not a USER raised before.
C19_SignalReplaces ==
    last_op.op = "signal" =>
        /\ active_signals = last_op.signals
        /\ (last_op.signals = Signals_empty =>
               \A f \in SignalFlags : f \notin active_signals)

C19_Witness ==
    /\ last_op.op = "signal"
    /\ last_op.signals = Signals_empty
    /\ "USER" \in last_op.before
    /\ "USER" \notin active_signals

\* C20: after raise(s) the active signals are the ones active before united
\* with s: every signal active before is still active, and raising active
\* signals or the empty set changes nothing.
C20_RaiseOrs ==
    last_op.op = "raise" =>
        /\ active_signals = last_op.before \cup last_op.signals
        /\ last_op.before \subseteq active_signals
        /\ (last_op.signals \subseteq last_op.before =>
               active_signals = last_op.before)

C20_Witness ==
    /\ last_op.op = "raise"
    /\ last_op.before = {"READABLE"}
    /\ last_op.signals = {"USER"}
    /\ active_signals = {"READABLE", "USER"}

----------------------------------------------------------------------------
(* Properties of the IPC notification test, checked under SpecIpc *)

\* the transaction in the channel was answered and the client has not yet
\* gone on
Answered == channel.state = "answered"

\* the operation byte of the request in the channel
RequestOp == IF channel.request = <<>> THEN 0 ELSE channel.request[1]

AnswersFor(request) ==
    IF request = <<>> THEN {<<255>>}
    ELSE IF request[1] \notin 1..5 THEN {<<254>>}
    ELSE IF request[1] = 3 /\ Len(request) < 3 THEN {<<253>>}
    ELSE IF request[1] = 4 THEN {<<0>>}
    ELSE IF request[1] = 5 THEN {<<5, 0>>, <<5, 1>>}
    ELSE IF request[1] = 3 THEN {handle_batch(request)[2]}
    ELSE IF request[1] = 2 THEN {handle_transform(request)[2]}
    ELSE {handle_echo(request)[2]}

\* C28: for every request it reads the server calls channel_respond exactly
\* once before it waits for READABLE again: no response before the handler
\* ran, one when the loop is back at its wait; an empty request is answered
\* [0xFF], an unknown operation [0xFE], a handler error [0xFD], a successful
\* handler its response.
C28_RespondsOncePerRequest ==
    /\ server.pc \in {"handle", "respond"} =>
          server.answers = 0 /\ channel.state = "pending"
    /\ (server.pc \in {"wait", "read"} /\ server.served) => server.answers = 1
    /\ (server.pc = "wait" /\ ~server.served) => channel.state # "answered"
    /\ Answered =>
          /\ server.answers = 1
          /\ channel.response \in AnswersFor(channel.request)

C28_Witness ==
    /\ Answered
    /\ server.pc = "wait"
    /\ server.answers = 1
    /\ channel.request = <<3, 65>>
    /\ channel.response = <<253>>

\* the upper-case letter of an ASCII lower-case letter, every other byte itself
Uppercased(b) == IF \E k \in 0..25 : b = 97 + k THEN 65 + (b - 97) ELSE b

\* C29: Echo returns the request unchanged, Transform returns the operation
\* byte followed by the ASCII-uppercased payload, Batch with the request
\* [op, a, b] returns [op, a, b, (a + b) mod 256], and a Batch request
\* shorter than 3 bytes is answered [0xFD].
C29_ResponseIsFunctionOfRequest ==
    Answered =>
        LET request == channel.request
            response == channel.response
        IN  /\ RequestOp = Op_Echo => response = request
            /\ RequestOp = Op_Transform =>
                  /\ Len(response) = Len(request)
                  /\ response[1] = Op_Transform
                  /\ \A i \in 2..Len(request) :
                        response[i] = Uppercased(request[i])
            /\ (RequestOp = Op_Batch /\ Len(request) = 3) =>
                  response = <<Op_Batch, request[2], request[3],
                               (request[2] + request[3]) % 256>>
            /\ (RequestOp = Op_Batch /\ Len(request) < 3) => response = <<253>>

C29_Witness ==
    /\ Answered
    /\ channel.request = <<2, 104, 101, 108, 108, 111>>
    /\ channel.response = <<2, 72, 69, 76, 76, 79>>

====
